---- MODULE Spec2Model ----
(***************************************************************************)
(* Model of @singleware/application, class Main (source/main.ts): the      *)
(* lifecycle (start, stop, addHandler, addService, addLogger) and the      *)
(* request dispatch (receiveHandler, performFilters, performHandler and    *)
(* the onMatch callbacks installed by addHandler).                         *)
(*                                                                         *)
(* The asynchronous dispatch of a request is a process with a position     *)
(* (pc); a handler method is invoked in one step and completes in a later  *)
(* one, so that dispatches of different requests interleave at the awaits. *)
(* The router, the services and the loggers are the collaborators the      *)
(* class is given; loggers record what they are told in log.               *)
(*                                                                         *)
(* Spec is the application with one request object and collaborators that  *)
(* do not throw. SpecConcurrent dispatches two request objects together on  *)
(* a started application, SpecStalled adds to that a handler method that    *)
(* never returns and the lifecycle calls made meanwhile, and SpecFaulty is  *)
(* the lifecycle with services and loggers that may throw. SpecHub calls    *)
(* the two notification methods with every kind, SpecObserved has a logger  *)
(* that keeps the copies it is handed, SpecThrowing is the dispatch with    *)
(* logger callbacks that may throw, and SpecRepeated adds the same handler  *)
(* type again while routes are still registered for it.                     *)
(***************************************************************************)
EXTENDS Integers, Sequences, FiniteSets, TLC

\* ------------------------------------------------------------------ bounds

\* Calls of start() and stop() on a fresh application that trail records.
MaxTrail == 4
\* Requests that may be in flight at once (request objects r \in 1..MaxRequests).
MaxRequests == 1
\* addHandler calls that succeed.
MaxHandlers == 1
\* addService calls that succeed.
MaxServices == 1
\* addLogger calls that succeed.
MaxLoggers == 2

\* Subscriptions of one listener a service may hold at once (calls of start()
\* that fail part-way subscribe again what they subscribed before).
MaxSubscriptions == 2

\* addHandler calls that succeed where the same handler type is added again.
MaxRepeats == 2

Requests == 1..MaxRequests

\* ------------------------------------------------------- values and helpers

\* Variables of an environment: a mapping from Keys, Absent where a key is not set.
Keys == {"x", "y", "z"}
Absent == "-"
NoVars == [k \in Keys |-> Absent]

\* { ...a, ...b }: the keys of b win over those of a.
Spread(a, b) == [k \in Keys |-> IF b[k] # Absent THEN b[k] ELSE a[k]]

\* JavaScript truthiness of the values request.granted takes here.
Truthy(v) == v = "true"

\* a || false
OrFalse(v) == IF Truthy(v) THEN v ELSE "false"

\* The path of a request or of an action, as its segments.
IsPrefix(p, q) == Len(p) <= Len(q) /\ SubSeq(q, 1, Len(p)) = p

\* ------------------------------------------------------------- route table

Handlers == {"Site"}

\* Main.routes after the decorators of the handler class have run: Site
\* declares two filters (on /a and on /a/b, neither exact) and four processors
\* (two on /a/b, two on /c; one of each pair exact by default).
SiteRoutes ==
  << [type |-> "Filter", method |-> "check",
      action |-> [path |-> <<"a">>, exact |-> "unset",
                  environment |-> [NoVars EXCEPT !["x"] = "fc", !["y"] = "fc"]]],
     [type |-> "Filter", method |-> "deep",
      action |-> [path |-> <<"a", "b">>, exact |-> "unset",
                  environment |-> [NoVars EXCEPT !["y"] = "fd"]]],
     [type |-> "Processor", method |-> "list",
      action |-> [path |-> <<"a", "b">>, exact |-> "false",
                  environment |-> [NoVars EXCEPT !["x"] = "pl", !["y"] = "pl", !["z"] = "pl"]]],
     [type |-> "Processor", method |-> "view",
      action |-> [path |-> <<"a", "b">>, exact |-> "unset",
                  environment |-> [NoVars EXCEPT !["z"] = "pv"]]],
     [type |-> "Processor", method |-> "home",
      action |-> [path |-> <<"c">>, exact |-> "unset",
                  environment |-> [NoVars EXCEPT !["x"] = "ph"]]],
     [type |-> "Processor", method |-> "root",
      action |-> [path |-> <<"c">>, exact |-> "false",
                  environment |-> NoVars]] >>

\* Main.routes once the handler classes have been defined.
Decorated == [h \in Handlers |-> SiteRoutes]

\* Paths a service may deliver, the values of granted a request may carry at
\* receipt and the local environments it may carry.
Paths == {<<"a">>, <<"a", "b">>, <<"c">>, <<"d">>}
Granteds == {"true", "false", "undefined"}
Locals == {NoVars, [NoVars EXCEPT !["x"] = "rq"]}

\* What a filter method may do, what a processor method may do, and what the
\* filterHandler hook may answer.
FilterOutcomes == {"true", "false", "other", "throw"}
ProcessorOutcomes == {"return", "throw"}
HookResults == {"true", "false"}

\* ------------------------------------------------------------------- state

VARIABLES
  routes,      \* Main.routes: per handler class, the routes registered for it
  started,     \* Main.started
  services,    \* Main.services: per service its subscriptions and whether it runs
  loggers,     \* Main.loggers
  filters,     \* Main.filters: the entries added to the filter router
  processors,  \* Main.processors: the entries added to the processor router
  req,         \* the request objects and the frames of their dispatch
  log,         \* per request, what loggers and handler methods have seen
  actionLog,   \* what loggers have seen of the last start() or stop()
  lastCall,    \* the last call of the public interface and how it ended
  trail        \* the first calls on the application, while only start() and stop()

vars == <<routes, started, services, loggers, filters, processors, req, log, actionLog, lastCall, trail>>

\* A request object no service has delivered yet.
IdleRequest ==
  [pc |-> "idle", path |-> <<>>, granted |-> "undefined", error |-> 0,
   envLocal |-> [obj |-> "original", vars |-> NoVars],
   original |-> [obj |-> "original", vars |-> NoVars],
   seeded |-> "undefined",
   local |-> [obj |-> "original", vars |-> NoVars],
   pmatch |-> <<>>,
   flocal |-> [obj |-> "original", vars |-> NoVars],
   fmatch |-> <<>>, variables |-> NoVars,
   \* what the checks below read: the number of handler invocations so far, the
   \* processor candidate the loop is at, the candidates and the loggers at
   \* receipt, and whether a filter pass has found a filter
   calls |-> 0, cand |-> 0, candidates |-> <<>>, observers |-> <<>>,
   filtered |-> FALSE]

Init ==
  /\ routes = Decorated
  /\ started = FALSE
  /\ services = <<>>
  /\ loggers = <<>>
  /\ filters = <<>>
  /\ processors = <<>>
  /\ req = [r \in Requests |-> IdleRequest]
  /\ log = [r \in Requests |-> <<>>]
  /\ actionLog = <<>>
  /\ lastCall = [op |-> "new", result |-> "ok"]
  /\ trail = [open |-> TRUE, calls |-> <<>>]

\* ----------------------------------------------------------- notifications

\* What a logger records of a request notification: the frozen copy's top-level
\* fields, and the local environment the shared environment record held then.
RequestEvent(type, logger, q) ==
  [ev |-> "notify", kind |-> type, logger |-> logger, idx |-> 0, method |-> "-",
   n |-> 0, granted |-> q.granted, error |-> q.error, local |-> q.envLocal,
   out |-> "-", hook |-> "-", cand |-> 0]

\* notifyRequest leaving its loop after the first logger.
NotifyRequest_FirstOnly(type, q) ==
  [i \in 1..(IF Len(loggers) > 0 THEN 1 ELSE 0) |-> RequestEvent(type, loggers[i], q)]

\* notifyRequest(type, request): every logger, in registration order, is handed
\* the copy through the callback of the type.
NotifyRequest(type, q) ==
  [i \in 1..Len(loggers) |-> RequestEvent(type, loggers[i], q)]

\* notifyAction(type), called with Main.started = isStarted and the services as
\* in svcs: every logger, in registration order.
NotifyAction(type, isStarted, svcs) ==
  [i \in 1..Len(loggers) |->
     [kind |-> type, logger |-> loggers[i], started |-> isStarted, services |-> svcs]]

\* What a handler method records when it is invoked (new handler(...)[method](match)):
\* the router entry, the number of the invocation within the request, and the
\* request's granted and environment.local as the method finds them, and the
\* processor candidate the loop of receiveHandler is at.
InvokeEvent(type, entry, q) ==
  [ev |-> "invoke", kind |-> type, logger |-> 0, idx |-> entry.idx,
   method |-> entry.method, n |-> q.calls + 1, granted |-> q.granted,
   error |-> q.error, local |-> q.envLocal, out |-> "-", hook |-> "-",
   cand |-> q.cand]

\* The completion of invocation n of a handler method: what it returned, or that
\* it threw, and for a filter what the filterHandler hook answered.
ReturnEvent(type, q, outcome, hook) ==
  [ev |-> "return", kind |-> type, logger |-> 0, idx |-> 0, method |-> "-",
   n |-> q.calls, granted |-> q.granted, error |-> q.error, local |-> q.envLocal,
   out |-> outcome, hook |-> hook, cand |-> q.cand]

\* --------------------------------------------------------------- lifecycle

\* trail after a call of start() or stop() that ended with result and left
\* Main.started as after; it stops recording at the first add* call.
Recorded(op, result, after) ==
  IF trail.open /\ Len(trail.calls) < MaxTrail
  THEN [trail EXCEPT !.calls = Append(@, [op |-> op, result |-> result, started |-> after])]
  ELSE trail

Closed == [open |-> FALSE, calls |-> <<>>]

\* The number of addHandler calls that have installed entries.
HandlerCalls ==
  LET all == filters \o processors
      RECURSIVE Max(_)
      Max(s) == IF s = <<>> THEN 0
                ELSE LET m == Max(Tail(s)) IN IF Head(s).call > m THEN Head(s).call ELSE m
  IN Max(all)

\* The router entry addHandler makes of a route: { ...route.action, onMatch },
\* with exact defaulting to true for a processor.
FilterEntry(h, route, call, at) ==
  [handler |-> h, method |-> route.method, call |-> call, idx |-> at,
   path |-> route.action.path, exact |-> route.action.exact,
   variables |-> route.action.environment]

ProcessorEntry(h, route, call, at) ==
  [handler |-> h, method |-> route.method, call |-> call, idx |-> at,
   path |-> route.action.path,
   exact |-> IF route.action.exact = "unset" THEN "true" ELSE route.action.exact,
   variables |-> route.action.environment]

\* The routes of list that are of type, in their order.
OfType(list, type) == SelectSeq(list, LAMBDA route : route.type = type)

\* addHandler leaving a handler type alone that it has installed before.
AddHandlerWithin_Once(h, most) ==
  IF started
  THEN /\ lastCall' = [op |-> "addHandler", result |-> "error"]
       /\ trail' = Closed
       /\ UNCHANGED <<routes, started, services, loggers, filters, processors, req, log, actionLog>>
  ELSE /\ HandlerCalls < most
       /\ LET fs == IF HandlerCalls > 0 THEN <<>> ELSE OfType(routes[h], "Filter")
              ps == IF HandlerCalls > 0 THEN <<>> ELSE OfType(routes[h], "Processor")
              call == HandlerCalls + 1
          IN /\ filters' = filters \o
                  [i \in 1..Len(fs) |-> FilterEntry(h, fs[i], call, Len(filters) + i)]
             /\ processors' = processors \o
                  [i \in 1..Len(ps) |-> ProcessorEntry(h, ps[i], call, Len(processors) + i)]
       /\ lastCall' = [op |-> "addHandler", result |-> "ok"]
       /\ trail' = Closed
       /\ UNCHANGED <<routes, started, services, loggers, req, log, actionLog>>

\* addHandler(handler), for at most most calls that install entries: the
\* routes registered for the handler type now are installed, in their order.
AddHandlerWithin(h, most) ==
  IF started
  THEN /\ lastCall' = [op |-> "addHandler", result |-> "error"]
       /\ trail' = Closed
       /\ UNCHANGED <<routes, started, services, loggers, filters, processors, req, log, actionLog>>
  ELSE /\ HandlerCalls < most
       /\ LET fs == OfType(routes[h], "Filter")
              ps == OfType(routes[h], "Processor")
              call == HandlerCalls + 1
          IN /\ filters' = filters \o
                  [i \in 1..Len(fs) |-> FilterEntry(h, fs[i], call, Len(filters) + i)]
             /\ processors' = processors \o
                  [i \in 1..Len(ps) |-> ProcessorEntry(h, ps[i], call, Len(processors) + i)]
       /\ lastCall' = [op |-> "addHandler", result |-> "ok"]
       /\ trail' = Closed
       /\ UNCHANGED <<routes, started, services, loggers, req, log, actionLog>>

\* addHandler(handler)
AddHandler(h) == AddHandlerWithin(h, MaxHandlers)

\* A service as addService receives it: nothing subscribed, not running.
NewService == [receive |-> 0, send |-> 0, error |-> 0, running |-> FALSE]

\* addService(service)
AddService ==
  IF started
  THEN /\ lastCall' = [op |-> "addService", result |-> "error"]
       /\ trail' = Closed
       /\ UNCHANGED <<routes, started, services, loggers, filters, processors, req, log, actionLog>>
  ELSE /\ Len(services) < MaxServices
       /\ services' = Append(services, NewService)
       /\ lastCall' = [op |-> "addService", result |-> "ok"]
       /\ trail' = Closed
       /\ UNCHANGED <<routes, started, loggers, filters, processors, req, log, actionLog>>

\* addLogger without the check of Main.started.
AddLogger_Unchecked ==
  /\ Len(loggers) < MaxLoggers
  /\ loggers' = Append(loggers, Len(loggers) + 1)
  /\ lastCall' = [op |-> "addLogger", result |-> "ok"]
  /\ trail' = Closed
  /\ UNCHANGED <<routes, started, services, filters, processors, req, log, actionLog>>

\* addLogger(logger)
AddLogger ==
  IF started
  THEN /\ lastCall' = [op |-> "addLogger", result |-> "error"]
       /\ trail' = Closed
       /\ UNCHANGED <<routes, started, services, loggers, filters, processors, req, log, actionLog>>
  ELSE /\ Len(loggers) < MaxLoggers
       /\ loggers' = Append(loggers, Len(loggers) + 1)
       /\ lastCall' = [op |-> "addLogger", result |-> "ok"]
       /\ trail' = Closed
       /\ UNCHANGED <<routes, started, services, filters, processors, req, log, actionLog>>

\* No listener is subscribed to a service as often as the model follows yet.
CanSubscribe == \A i \in 1..Len(services) : services[i].receive < MaxSubscriptions

\* The body of the loop of start(): the three listeners are subscribed to the
\* service, then the service is started.
StartService(s) ==
  [receive |-> s.receive + 1, send |-> s.send + 1, error |-> s.error + 1, running |-> TRUE]

\* The body of the loop of stop(): the service is stopped, then the three
\* listeners are unsubscribed from it.
StopService(s) ==
  [receive |-> IF s.receive > 0 THEN s.receive - 1 ELSE 0,
   send |-> IF s.send > 0 THEN s.send - 1 ELSE 0,
   error |-> IF s.error > 0 THEN s.error - 1 ELSE 0,
   running |-> FALSE]

\* start() without the check of Main.started.
Start_Unchecked ==
  /\ actionLog' = NotifyAction("Start", started, services)
  /\ services' = [i \in 1..Len(services) |-> StartService(services[i])]
  /\ started' = TRUE
  /\ lastCall' = [op |-> "start", result |-> "ok"]
  /\ trail' = Recorded("start", "ok", started')
  /\ UNCHANGED <<routes, loggers, filters, processors, req, log>>

\* start()
Start ==
  IF started
  THEN /\ lastCall' = [op |-> "start", result |-> "error"]
       /\ trail' = Recorded("start", "error", started)
       /\ UNCHANGED <<routes, started, services, loggers, filters, processors, req, log, actionLog>>
  ELSE /\ CanSubscribe
       /\ actionLog' = NotifyAction("Start", started, services)
       /\ services' = [i \in 1..Len(services) |-> StartService(services[i])]
       /\ started' = TRUE
       /\ lastCall' = [op |-> "start", result |-> "ok"]
       /\ trail' = Recorded("start", "ok", started')
       /\ UNCHANGED <<routes, loggers, filters, processors, req, log>>

\* stop() without the reset of Main.started.
Stop_StaysStarted ==
  IF ~started
  THEN /\ lastCall' = [op |-> "stop", result |-> "error"]
       /\ trail' = Recorded("stop", "error", started)
       /\ UNCHANGED <<routes, started, services, loggers, filters, processors, req, log, actionLog>>
  ELSE /\ services' = [i \in 1..Len(services) |-> StopService(services[i])]
       /\ started' = started
       /\ actionLog' = NotifyAction("Stop", started', services')
       /\ lastCall' = [op |-> "stop", result |-> "ok"]
       /\ trail' = Recorded("stop", "ok", started')
       /\ UNCHANGED <<routes, loggers, filters, processors, req, log>>

\* stop() notifying the loggers as its first step, before the services are
\* stopped and Main.started is reset.
Stop_NotifiesFirst ==
  IF ~started
  THEN /\ lastCall' = [op |-> "stop", result |-> "error"]
       /\ trail' = Recorded("stop", "error", started)
       /\ UNCHANGED <<routes, started, services, loggers, filters, processors, req, log, actionLog>>
  ELSE /\ actionLog' = NotifyAction("Stop", started, services)
       /\ services' = [i \in 1..Len(services) |-> StopService(services[i])]
       /\ started' = FALSE
       /\ lastCall' = [op |-> "stop", result |-> "ok"]
       /\ trail' = Recorded("stop", "ok", started')
       /\ UNCHANGED <<routes, loggers, filters, processors, req, log>>

\* stop()
Stop ==
  IF ~started
  THEN /\ lastCall' = [op |-> "stop", result |-> "error"]
       /\ trail' = Recorded("stop", "error", started)
       /\ UNCHANGED <<routes, started, services, loggers, filters, processors, req, log, actionLog>>
  ELSE /\ services' = [i \in 1..Len(services) |-> StopService(services[i])]
       /\ started' = FALSE
       /\ actionLog' = NotifyAction("Stop", started', services')
       /\ lastCall' = [op |-> "stop", result |-> "ok"]
       /\ trail' = Recorded("stop", "ok", started')
       /\ UNCHANGED <<routes, loggers, filters, processors, req, log>>

\* ---------------------------------------------------------------- dispatch

\* Router.match(path, request): the entries of the router the path matches, in
\* the order they were added; an exact entry matches its own path only, another
\* one every path it is a prefix of.
RouteMatches(entry, path) ==
  IF entry.exact = "true" THEN entry.path = path ELSE IsPrefix(entry.path, path)

RouterMatch(router, path) == SelectSeq(router, LAMBDA entry : RouteMatches(entry, path))

\* A service with the receive listener subscribed may deliver a request.
Listening == \E i \in 1..Len(services) : services[i].receive > 0

\* The merge for a filter with the candidate's variables spread after the
\* filter's own.
FilterLocal_SeedWins(variables, matchVariables, local) ==
  [obj |-> "fresh", vars |-> Spread(Spread(matchVariables, variables), local.vars)]

\* The object performFilters puts in request.environment.local for a filter.
FilterLocal(variables, matchVariables, local) ==
  [obj |-> "fresh", vars |-> Spread(Spread(variables, matchVariables), local.vars)]

\* The merge for a processor with the match's variables spread after the
\* request's own.
ProcessorLocal_MatchWins(matchVariables, local) ==
  [obj |-> "fresh", vars |-> Spread(local.vars, matchVariables)]

\* The object receiveHandler puts in request.environment.local for a processor.
ProcessorLocal(matchVariables, local) ==
  [obj |-> "fresh", vars |-> Spread(matchVariables, local.vars)]

\* The local environment left as the match had it.
Restore_Skipped(q, saved) == q

\* The saved local environment kept in one place for all dispatches (where the
\* dispatch of the first request object keeps its own) instead of in a
\* constant of the call.
Restore_FromShared(q, saved) == [q EXCEPT !.envLocal = req[1].local]

\* request.environment.local = local, after a match has been advanced.
Restore(q, saved) == [q EXCEPT !.envLocal = saved]

\* The loop of performFilters running on match.length alone.
FiltersRemain_Ungated(q) == q.fmatch # <<>>

\* The condition of the loop of performFilters.
FiltersRemain(q) == Truthy(q.granted) /\ q.fmatch # <<>>

\* performFilters granting only what a filter has granted.
FiltersResult_NeedsFilter(q) ==
  IF RouterMatch(filters, q.path) = <<>> THEN "false" ELSE OrFalse(q.granted)

\* performFilters returning true whatever the filters decided.
FiltersResult_Granted(q) == "true"

\* performFilters granting a request that no filter matches.
FiltersResult_OpenWithoutFilters(q) ==
  IF RouterMatch(filters, q.path) = <<>> THEN "true" ELSE OrFalse(q.granted)

\* What performFilters returns: request.granted || false.
FiltersResult(q) == OrFalse(q.granted)

\* The first operand of the condition of the loop of receiveHandler.
ProcessorsRemain(q) == q.pmatch # <<>>

\* A filter allowing unless its method returned false.
Allows_UnlessFalse(result) == result # "false"

\* (await performHandler(...)) === true
Allows(result) == result = "true"

\* granted taken from the answer of the hook alone.
GrantedBy_HookOnly(hook, allows) == hook

\* (await filterHandler(match, allows)) && allows === true
GrantedBy(hook, allows) ==
  IF ~Truthy(hook) THEN hook ELSE IF allows THEN "true" ELSE "false"

\* performHandler passing for a method that threw.
HandlerResult_FailOpen(outcome) == IF outcome = "throw" THEN "true" ELSE outcome

\* What performHandler returns for what the handler method did: its result, or
\* undefined when it threw.
HandlerResult(outcome) == IF outcome = "throw" THEN "undefined" ELSE outcome

\* The catch block without match.detail.error = error.
Caught_NotAttached(q, outcome) == q

\* The catch block of performHandler: the error joins the detail, and the
\* loggers are notified of it.
Caught(q, outcome) ==
  IF outcome = "throw" THEN [q EXCEPT !.error = q.calls] ELSE q

ErrorEvents(q, outcome) ==
  IF outcome = "throw" THEN NotifyRequest("Error", Caught(q, outcome)) ELSE <<>>

\* receiveHandler(request) up to the loop: a service delivers a request object.
Receive(r, path, granted, local) ==
  /\ req[r].pc \in {"idle", "done"}
  /\ Listening
  /\ LET env == [obj |-> "original", vars |-> local]
         q == [IdleRequest EXCEPT !.path = path, !.granted = granted,
                                  !.seeded = granted, !.envLocal = env,
                                  !.original = env, !.observers = loggers,
                                  !.candidates = RouterMatch(processors, path)]
     IN /\ log' = [log EXCEPT ![r] = NotifyRequest("Receive", q)]
        /\ req' = [req EXCEPT ![r] =
              [q EXCEPT !.local = q.envLocal,
                        !.pmatch = RouterMatch(processors, path),
                        !.pc = "ploop"]]
  /\ UNCHANGED <<routes, started, services, loggers, filters, processors, actionLog, lastCall, trail>>

\* The filters run for the first processor candidate only, their verdict kept
\* for the candidates after it.
FilterMatch_Cached(q) == IF q.calls > 0 THEN <<>> ELSE RouterMatch(filters, q.path)

\* this.filters.match(request.path, request), at the entry of performFilters.
FilterMatch(q) == RouterMatch(filters, q.path)

\* The loop of receiveHandler with the operands of its condition exchanged:
\* performFilters is entered before the processor match is tested.
ProcessorLoop_FiltersFirst(r) ==
  LET q == req[r] IN
  /\ q.pc = "ploop"
  /\ IF ProcessorsRemain(q) \/ (q.calls = 0 /\ FilterMatch(q) # <<>>)
     THEN /\ req' = [req EXCEPT ![r] =
                [q EXCEPT !.flocal = q.envLocal,
                          !.fmatch = FilterMatch(q),
                          !.variables = IF ProcessorsRemain(q)
                                        THEN Head(q.pmatch).variables ELSE NoVars,
                          !.cand = IF ProcessorsRemain(q) THEN Head(q.pmatch).idx ELSE 0,
                          !.filtered = q.filtered \/ FilterMatch(q) # <<>>,
                          !.pc = "floop"]]
          /\ UNCHANGED log
     ELSE /\ req' = [req EXCEPT ![r] = [q EXCEPT !.pc = "done"]]
          /\ log' = [log EXCEPT ![r] = @ \o NotifyRequest("Process", q)]
  /\ UNCHANGED <<routes, started, services, loggers, filters, processors, actionLog, lastCall, trail>>

\* The condition of the loop of receiveHandler: with no candidate left the
\* loggers are notified and the dispatch ends; with one, performFilters is
\* entered with the candidate's variables.
ProcessorLoop(r) ==
  LET q == req[r] IN
  /\ q.pc = "ploop"
  /\ IF ProcessorsRemain(q)
     THEN /\ req' = [req EXCEPT ![r] =
                [q EXCEPT !.flocal = q.envLocal,
                          !.fmatch = FilterMatch(q),
                          !.variables = Head(q.pmatch).variables,
                          !.cand = Head(q.pmatch).idx,
                          !.filtered = q.filtered \/ FilterMatch(q) # <<>>,
                          !.pc = "floop"]]
          /\ UNCHANGED log
     ELSE /\ req' = [req EXCEPT ![r] = [q EXCEPT !.pc = "done"]]
          /\ log' = [log EXCEPT ![r] = @ \o NotifyRequest("Process", q)]
  /\ UNCHANGED <<routes, started, services, loggers, filters, processors, actionLog, lastCall, trail>>

\* The loop of performFilters resuming while the filter it awaits still runs.
AtFilters_NoAwait(q) == q.pc \in {"floop", "fwait"}

\* The loop of performFilters resuming only while no handler method of any
\* request is stalled, as if the dispatches went through one queue.
AtFilters_OneQueue(q) == q.pc = "floop" /\ \A r \in DOMAIN req : req[r].pc # "hung"

\* The loop of performFilters giving up once the application is stopped.
AtFilters_WhileStarted(q) == q.pc = "floop" /\ started

\* The loop of performFilters is at its condition: it has been entered, or the
\* match it awaited (await match.next()) has completed.
AtFilters(q) == q.pc = "floop"

\* The condition of the loop of performFilters. While the request is granted
\* and a filter is left, the filter's method is invoked under its merged local
\* environment. Otherwise performFilters returns: granted, the processor's
\* method is invoked under its merged local environment; denied, the loop of
\* receiveHandler ends, the loggers are notified and the dispatch ends.
FilterLoop(r) ==
  LET q == req[r] IN
  /\ AtFilters(q)
  /\ IF FiltersRemain(q)
     THEN LET entry == Head(q.fmatch)
              q1 == [q EXCEPT !.envLocal = FilterLocal(q.variables, entry.variables, q.flocal)]
          IN /\ log' = [log EXCEPT ![r] = Append(@, InvokeEvent("Filter", entry, q1))]
             /\ req' = [req EXCEPT ![r] =
                   [q1 EXCEPT !.fmatch = Tail(q.fmatch), !.calls = q.calls + 1,
                              !.pc = "fwait"]]
     ELSE IF Truthy(FiltersResult(q))
     THEN LET entry == Head(q.pmatch)
              q1 == [q EXCEPT !.envLocal = ProcessorLocal(entry.variables, q.local)]
          IN /\ log' = [log EXCEPT ![r] = Append(@, InvokeEvent("Processor", entry, q1))]
             /\ req' = [req EXCEPT ![r] =
                   [q1 EXCEPT !.pmatch = Tail(q.pmatch), !.calls = q.calls + 1,
                              !.pc = "pwait"]]
     ELSE /\ req' = [req EXCEPT ![r] = [q EXCEPT !.pc = "done"]]
          /\ log' = [log EXCEPT ![r] = @ \o NotifyRequest("Process", q)]
  /\ UNCHANGED <<routes, started, services, loggers, filters, processors, actionLog, lastCall, trail>>

\* A filter's method completes: performHandler catches what it threw, the
\* onMatch callback sets granted from the result and the hook, and
\* performFilters restores the local environment.
FilterReturn(r, outcome, hook) ==
  LET q == req[r] IN
  /\ q.pc = "fwait"
  /\ LET q1 == Caught(q, outcome)
         allows == Allows(HandlerResult(outcome))
     IN /\ log' = [log EXCEPT ![r] =
              Append(@, ReturnEvent("Filter", q, outcome, hook)) \o ErrorEvents(q, outcome)]
        /\ req' = [req EXCEPT ![r] =
              [Restore([q1 EXCEPT !.granted = GrantedBy(hook, allows)], q.flocal)
                 EXCEPT !.pc = "floop"]]
  /\ UNCHANGED <<routes, started, services, loggers, filters, processors, actionLog, lastCall, trail>>

\* A processor's method completes: performHandler catches what it threw, and
\* receiveHandler restores the local environment.
ProcessorReturn(r, outcome) ==
  LET q == req[r] IN
  /\ q.pc = "pwait"
  /\ LET q1 == Caught(q, outcome)
     IN /\ log' = [log EXCEPT ![r] =
              Append(@, ReturnEvent("Processor", q, outcome, "-")) \o ErrorEvents(q, outcome)]
        /\ req' = [req EXCEPT ![r] = [Restore(q1, q.local) EXCEPT !.pc = "ploop"]]
  /\ UNCHANGED <<routes, started, services, loggers, filters, processors, actionLog, lastCall, trail>>

\* ----------------------------------------------------------- specification

Next ==
  \/ \E h \in Handlers : AddHandler(h)
  \/ AddService
  \/ AddLogger
  \/ Start
  \/ Stop
  \/ \E r \in Requests, path \in Paths, granted \in Granteds, local \in Locals :
       Receive(r, path, granted, local)
  \/ \E r \in Requests : ProcessorLoop(r)
  \/ \E r \in Requests : FilterLoop(r)
  \/ \E r \in Requests, outcome \in FilterOutcomes, hook \in HookResults :
       FilterReturn(r, outcome, hook)
  \/ \E r \in Requests, outcome \in ProcessorOutcomes : ProcessorReturn(r, outcome)

Spec == Init /\ [][Next]_vars

\* --------------------------------------------------- concurrent dispatches

\* Two request objects, for the dispatches that are in flight together.
Pair == {1, 2}

\* The application after addHandler(Site), addService, addLogger and start().
Serving ==
  /\ routes = Decorated
  /\ started = TRUE
  /\ services = <<StartService(NewService)>>
  /\ loggers = <<1>>
  /\ filters = LET fs == OfType(SiteRoutes, "Filter")
               IN [i \in 1..Len(fs) |-> FilterEntry("Site", fs[i], 1, i)]
  /\ processors = LET ps == OfType(SiteRoutes, "Processor")
                  IN [i \in 1..Len(ps) |-> ProcessorEntry("Site", ps[i], 1, i)]
  /\ actionLog = NotifyAction("Start", FALSE, <<NewService>>)
  /\ lastCall = [op |-> "start", result |-> "ok"]
  /\ trail = Closed

InitServing ==
  /\ Serving
  /\ req = [r \in Pair |-> IdleRequest]
  /\ log = [r \in Pair |-> <<>>]

\* The service delivers requests while earlier ones are still dispatched: the
\* dispatches interleave at their awaits.
NextConcurrent ==
  \/ \E r \in Pair, path \in Paths, granted \in Granteds, local \in Locals :
       Receive(r, path, granted, local)
  \/ \E r \in Pair : ProcessorLoop(r)
  \/ \E r \in Pair : FilterLoop(r)
  \/ \E r \in Pair, outcome \in FilterOutcomes, hook \in HookResults :
       FilterReturn(r, outcome, hook)
  \/ \E r \in Pair, outcome \in ProcessorOutcomes : ProcessorReturn(r, outcome)

SpecConcurrent == InitServing /\ [][NextConcurrent]_vars

\* ------------------------------------------- a handler that never returns

\* The handler method running for request r never returns: the promise
\* performHandler awaits is never settled, and nothing resumes the dispatch.
Hang(r) ==
  /\ req[r].pc \in {"fwait", "pwait"}
  /\ req' = [req EXCEPT ![r].pc = "hung"]
  /\ UNCHANGED <<routes, started, services, loggers, filters, processors, log, actionLog, lastCall, trail>>

\* The steps of the dispatch of request r that the event loop takes once they
\* can be taken: the continuations after an await, and the completion of a
\* handler method that does return.
Continue(r) ==
  \/ ProcessorLoop(r)
  \/ FilterLoop(r)
  \/ \E outcome \in {"true", "false"} : FilterReturn(r, outcome, "true")
  \/ \E outcome \in ProcessorOutcomes : ProcessorReturn(r, outcome)

\* Requests for /a/b are dispatched together, a handler method may never
\* return, and the application is stopped, added to and started meanwhile.
NextStalled ==
  \/ \E r \in Pair : Receive(r, <<"a", "b">>, "true", NoVars)
  \/ \E r \in Pair : Continue(r)
  \/ \E r \in Pair : Hang(r)
  \/ \E h \in Handlers : AddHandler(h)
  \/ AddService
  \/ AddLogger
  \/ Start
  \/ Stop

SpecStalled ==
  InitServing /\ [][NextStalled]_vars /\ \A r \in Pair : WF_vars(Continue(r))

\* ------------------------------------------ collaborators that throw

\* The three subscriptions of the loop of start().
Subscribe(s) == [s EXCEPT !.receive = @ + 1, !.send = @ + 1, !.error = @ + 1]

\* The loop of start() calling service.start() before it subscribes.
StartThrew_BeforeSubscribing(s, runs) == [s EXCEPT !.running = @ \/ runs]

\* A service whose start operation threw in the loop of start(): the three
\* listeners are subscribed, and the service has come to run or not, as it
\* left itself (one that ran before still does).
StartThrew(s, runs) == [Subscribe(s) EXCEPT !.running = @ \/ runs]

\* A service whose stop operation threw in the loop of stop(): nothing is
\* unsubscribed, and a service that ran still runs or not, as it left itself.
StopThrew(s, runs) == [s EXCEPT !.running = @ /\ runs]

\* start() in which the start operation of the k-th service throws: the loop
\* is left there, and Main.started is not set.
StartServiceThrows(k, runs) ==
  /\ ~started
  /\ k \in 1..Len(services)
  /\ CanSubscribe
  /\ actionLog' = NotifyAction("Start", started, services)
  /\ services' = [i \in 1..Len(services) |->
                    IF i < k THEN StartService(services[i])
                    ELSE IF i = k THEN StartThrew(services[i], runs)
                    ELSE services[i]]
  /\ lastCall' = [op |-> "start", result |-> "thrown"]
  /\ trail' = Recorded("start", "thrown", started)
  /\ UNCHANGED <<routes, started, loggers, filters, processors, req, log>>

\* stop() in which the stop operation of the k-th service throws: the loop is
\* left there, Main.started is not reset and the loggers are not told.
StopServiceThrows(k, runs) ==
  /\ started
  /\ k \in 1..Len(services)
  /\ services' = [i \in 1..Len(services) |->
                    IF i < k THEN StopService(services[i])
                    ELSE IF i = k THEN StopThrew(services[i], runs)
                    ELSE services[i]]
  /\ lastCall' = [op |-> "stop", result |-> "thrown"]
  /\ trail' = Recorded("stop", "thrown", started)
  /\ UNCHANGED <<routes, started, loggers, filters, processors, req, log, actionLog>>

\* start() in which onStart of the j-th logger throws: notifyAction is left
\* there, before the loop over the services.
StartLoggerThrows(j) ==
  /\ ~started
  /\ j \in 1..Len(loggers)
  /\ actionLog' = SubSeq(NotifyAction("Start", started, services), 1, j)
  /\ lastCall' = [op |-> "start", result |-> "thrown"]
  /\ trail' = Recorded("start", "thrown", started)
  /\ UNCHANGED <<routes, started, services, loggers, filters, processors, req, log>>

\* stop() in which onStop of the j-th logger throws: the services have been
\* stopped and Main.started reset by then.
StopLoggerThrows(j) ==
  /\ started
  /\ j \in 1..Len(loggers)
  /\ services' = [i \in 1..Len(services) |-> StopService(services[i])]
  /\ started' = FALSE
  /\ actionLog' = SubSeq(NotifyAction("Stop", started', services'), 1, j)
  /\ lastCall' = [op |-> "stop", result |-> "thrown"]
  /\ trail' = Recorded("stop", "thrown", started')
  /\ UNCHANGED <<routes, loggers, filters, processors, req, log>>

\* A fresh application to which two services have been added.
InitTwoServices ==
  /\ routes = Decorated
  /\ started = FALSE
  /\ services = <<NewService, NewService>>
  /\ loggers = <<>>
  /\ filters = <<>>
  /\ processors = <<>>
  /\ req = [r \in Requests |-> IdleRequest]
  /\ log = [r \in Requests |-> <<>>]
  /\ actionLog = <<>>
  /\ lastCall = [op |-> "addService", result |-> "ok"]
  /\ trail = Closed

\* The lifecycle with services and loggers that may throw.
NextFaulty ==
  \/ \E h \in Handlers : AddHandler(h)
  \/ AddService
  \/ AddLogger
  \/ Start
  \/ Stop
  \/ \E k \in 1..Len(services), runs \in BOOLEAN : StartServiceThrows(k, runs)
  \/ \E k \in 1..Len(services), runs \in BOOLEAN : StopServiceThrows(k, runs)
  \/ \E j \in 1..Len(loggers) : StartLoggerThrows(j)
  \/ \E j \in 1..Len(loggers) : StopLoggerThrows(j)

SpecFaulty == InitTwoServices /\ [][NextFaulty]_vars

\* ------------------------------------------------- the notification hub

\* The members of Types.Request and of Types.Action, and a value that is
\* neither, as the switch statements of notifyRequest and notifyAction see them.
RequestKinds == {"Receive", "Process", "Send", "Error"}
ActionKinds == {"Start", "Stop"}
OtherKind == "Other"

\* notifyRequest catching what a callback throws and going on to the next logger.
Reached_All(thrower) == Len(loggers)

\* The loggers a notification reaches when the callback of logger thrower
\* throws (0: no callback throws): the loop is left at the first throw.
Reached(thrower) == IF thrower = 0 THEN Len(loggers) ELSE thrower

\* The callbacks notifyRequest(type, request) has run when it returns or
\* throws: the default branch of the switch runs none.
RequestDelivery(type, q, thrower) ==
  IF type \in RequestKinds
  THEN SubSeq(NotifyRequest(type, q), 1, Reached(thrower))
  ELSE <<>>

\* The callbacks notifyAction(type) has run when it returns or throws.
ActionDelivery(type, isStarted, svcs, thrower) ==
  IF type \in ActionKinds
  THEN SubSeq(NotifyAction(type, isStarted, svcs), 1, Reached(thrower))
  ELSE <<>>

\* How a notification ends: the switch is inside the loop over the loggers, so
\* with no logger the body never runs; with one, a kind the switch does not
\* know throws the TypeError ("error") and a callback that throws is not
\* caught ("thrown").
HubResult(valid, thrower) ==
  IF loggers = <<>> THEN "ok"
  ELSE IF ~valid THEN "error"
  ELSE IF thrower > 0 THEN "thrown"
  ELSE "ok"

\* notifyRequest(type, request) with any value for type and any request.
NotifyRequestCall(r, type, path, granted, local, thrower) ==
  /\ thrower \in 0..Len(loggers)
  /\ LET env == [obj |-> "original", vars |-> local]
         q == [IdleRequest EXCEPT !.path = path, !.granted = granted,
                                  !.seeded = granted, !.envLocal = env,
                                  !.original = env, !.observers = loggers]
     IN /\ log' = [log EXCEPT ![r] = RequestDelivery(type, q, thrower)]
        /\ req' = [req EXCEPT ![r] = q]
  /\ lastCall' = [op |-> "notifyRequest", type |-> type,
                  result |-> HubResult(type \in RequestKinds, thrower)]
  /\ trail' = Closed
  /\ UNCHANGED <<routes, started, services, loggers, filters, processors, actionLog>>

\* notifyAction(type) with any value for type.
NotifyActionCall(type, thrower) ==
  /\ thrower \in 0..Len(loggers)
  /\ actionLog' = ActionDelivery(type, started, services, thrower)
  /\ lastCall' = [op |-> "notifyAction", type |-> type,
                  result |-> HubResult(type \in ActionKinds, thrower)]
  /\ trail' = Closed
  /\ UNCHANGED <<routes, started, services, loggers, filters, processors, req, log>>

\* The two notification methods called on an application with zero, one or
\* two loggers, with every kind and with callbacks that may throw.
NextHub ==
  \/ AddLogger
  \/ \E r \in Requests, type \in RequestKinds \cup {OtherKind}, path \in Paths,
        granted \in Granteds, local \in Locals, thrower \in 0..MaxLoggers :
       NotifyRequestCall(r, type, path, granted, local, thrower)
  \/ \E type \in ActionKinds \cup {OtherKind}, thrower \in 0..MaxLoggers :
       NotifyActionCall(type, thrower)

SpecHub == Init /\ [][NextHub]_vars

\* ------------------------------------------- loggers that keep the copy

\* A logger handed the request itself instead of a copy of it.
SnapshotView_Live(e, live) ==
  [granted |-> live.granted, error |-> live.error, local |-> live.envLocal]

\* What a logger reads, with the request as in live, through the copy it was
\* handed in notification e (Object.freeze({ ...request })): the top-level
\* fields are the copy's own; environment is the record the request holds
\* too, so environment.local is read from the live request.
SnapshotView(e, live) ==
  [granted |-> e.granted, error |-> e.error, local |-> live.envLocal]

\* An assignment to a top-level field of the copy: the copy is frozen, and it
\* is another object than the request.
FrozenWrite(e, value) == e
LoggerWrite(q, value) == q

\* A logger assigns value to granted of the copy it was handed in the i-th
\* entry of the record of r; the assignment is ignored or throws in the
\* logger's own code, as that code is in strict mode or not.
LoggerWrites(r, i, value, result) ==
  /\ i \in 1..Len(log[r])
  /\ log[r][i].ev = "notify"
  /\ log' = [log EXCEPT ![r][i] = FrozenWrite(@, value)]
  /\ req' = [req EXCEPT ![r] = LoggerWrite(@, value)]
  /\ lastCall' = [op |-> "write", result |-> result]
  /\ UNCHANGED <<routes, started, services, loggers, filters, processors, actionLog, trail>>

InitObserved ==
  /\ Serving
  /\ req = [r \in Requests |-> IdleRequest]
  /\ log = [r \in Requests |-> <<>>]

\* The dispatch on a started application whose logger keeps the copies it is
\* handed, reads them and tries to write to them later.
NextObserved ==
  \/ \E r \in Requests, path \in Paths, granted \in Granteds, local \in Locals :
       Receive(r, path, granted, local)
  \/ \E r \in Requests : ProcessorLoop(r)
  \/ \E r \in Requests : FilterLoop(r)
  \/ \E r \in Requests, outcome \in FilterOutcomes, hook \in HookResults :
       FilterReturn(r, outcome, hook)
  \/ \E r \in Requests, outcome \in ProcessorOutcomes : ProcessorReturn(r, outcome)
  \/ \E r \in Requests : \E i \in 1..Len(log[r]), value \in Granteds,
                             result \in {"ok", "thrown"} :
       LoggerWrites(r, i, value, result)

SpecObserved == InitObserved /\ [][NextObserved]_vars

\* ------------------------------------- logger callbacks that throw

\* performHandler without the return in its finally block: what the catch
\* block throws leaves performHandler, the onMatch callback, the match and
\* both loops, and receiveHandler rejects.
AfterCatch_Rethrows(pc, hub) == IF hub = "thrown" THEN "failed" ELSE pc

\* finally { return result }: the return discards what the catch block threw
\* (hub = "thrown": notifyRequest left by a throwing onError), and the caller
\* resumes at pc as after any invocation.
AfterCatch(pc, hub) == pc

\* receiveHandler(request) in which onReceive of the j-th logger throws:
\* notifyRequest is left there and receiveHandler rejects at its first line.
ReceiveLoggerThrows(r, path, granted, j) ==
  /\ req[r].pc \in {"idle", "done"}
  /\ Listening
  /\ j \in 1..Len(loggers)
  /\ LET env == [obj |-> "original", vars |-> NoVars]
         q == [IdleRequest EXCEPT !.path = path, !.granted = granted,
                                  !.seeded = granted, !.envLocal = env,
                                  !.original = env, !.observers = loggers,
                                  !.candidates = RouterMatch(processors, path)]
     IN /\ log' = [log EXCEPT ![r] = RequestDelivery("Receive", q, j)]
        /\ req' = [req EXCEPT ![r] = [q EXCEPT !.pc = "failed"]]
  /\ UNCHANGED <<routes, started, services, loggers, filters, processors, actionLog, lastCall, trail>>

\* A filter's method throws and onError of the j-th logger throws in the catch
\* block of performHandler.
FilterErrorLoggerThrows(r, hook, j) ==
  LET q == req[r] IN
  /\ q.pc = "fwait"
  /\ j \in 1..Len(loggers)
  /\ LET q1 == Caught(q, "throw")
         allows == Allows(HandlerResult("throw"))
     IN /\ log' = [log EXCEPT ![r] =
              Append(@, ReturnEvent("Filter", q, "throw", hook))
                \o RequestDelivery("Error", q1, j)]
        /\ req' = [req EXCEPT ![r] =
              [Restore([q1 EXCEPT !.granted = GrantedBy(hook, allows)], q.flocal)
                 EXCEPT !.pc = AfterCatch("floop", HubResult(TRUE, j))]]
  /\ UNCHANGED <<routes, started, services, loggers, filters, processors, actionLog, lastCall, trail>>

\* A processor's method throws and onError of the j-th logger throws in the
\* catch block of performHandler.
ProcessorErrorLoggerThrows(r, j) ==
  LET q == req[r] IN
  /\ q.pc = "pwait"
  /\ j \in 1..Len(loggers)
  /\ LET q1 == Caught(q, "throw")
     IN /\ log' = [log EXCEPT ![r] =
              Append(@, ReturnEvent("Processor", q, "throw", "-"))
                \o RequestDelivery("Error", q1, j)]
        /\ req' = [req EXCEPT ![r] =
              [Restore(q1, q.local) EXCEPT !.pc = AfterCatch("ploop", HubResult(TRUE, j))]]
  /\ UNCHANGED <<routes, started, services, loggers, filters, processors, actionLog, lastCall, trail>>

\* The loop of receiveHandler has ended and onProcess of the j-th logger
\* throws: receiveHandler rejects at its last line.
ProcessLoggerThrows(r, j) ==
  LET q == req[r] IN
  /\ \/ q.pc = "ploop" /\ ~ProcessorsRemain(q)
     \/ AtFilters(q) /\ ~FiltersRemain(q) /\ ~Truthy(FiltersResult(q))
  /\ j \in 1..Len(loggers)
  /\ log' = [log EXCEPT ![r] = @ \o RequestDelivery("Process", q, j)]
  /\ req' = [req EXCEPT ![r] = [q EXCEPT !.pc = "failed"]]
  /\ UNCHANGED <<routes, started, services, loggers, filters, processors, actionLog, lastCall, trail>>

\* A stopped application after addHandler(Site) and addService.
InitReady ==
  /\ routes = Decorated
  /\ started = FALSE
  /\ services = <<NewService>>
  /\ loggers = <<>>
  /\ filters = LET fs == OfType(SiteRoutes, "Filter")
               IN [i \in 1..Len(fs) |-> FilterEntry("Site", fs[i], 1, i)]
  /\ processors = LET ps == OfType(SiteRoutes, "Processor")
                  IN [i \in 1..Len(ps) |-> ProcessorEntry("Site", ps[i], 1, i)]
  /\ req = [r \in Requests |-> IdleRequest]
  /\ log = [r \in Requests |-> <<>>]
  /\ actionLog = <<>>
  /\ lastCall = [op |-> "addService", result |-> "ok"]
  /\ trail = Closed

\* The lifecycle and the dispatch with loggers whose callbacks may throw.
NextThrowing ==
  \/ AddLogger
  \/ Start
  \/ Stop
  \/ \E j \in 1..MaxLoggers : StartLoggerThrows(j)
  \/ \E j \in 1..MaxLoggers : StopLoggerThrows(j)
  \/ \E r \in Requests, path \in Paths, granted \in Granteds :
       Receive(r, path, granted, NoVars)
  \/ \E r \in Requests, path \in Paths, granted \in Granteds, j \in 1..MaxLoggers :
       ReceiveLoggerThrows(r, path, granted, j)
  \/ \E r \in Requests : ProcessorLoop(r)
  \/ \E r \in Requests : FilterLoop(r)
  \/ \E r \in Requests, outcome \in FilterOutcomes, hook \in HookResults :
       FilterReturn(r, outcome, hook)
  \/ \E r \in Requests, outcome \in ProcessorOutcomes : ProcessorReturn(r, outcome)
  \/ \E r \in Requests, hook \in HookResults, j \in 1..MaxLoggers :
       FilterErrorLoggerThrows(r, hook, j)
  \/ \E r \in Requests, j \in 1..MaxLoggers : ProcessorErrorLoggerThrows(r, j)
  \/ \E r \in Requests, j \in 1..MaxLoggers : ProcessLoggerThrows(r, j)

SpecThrowing == InitReady /\ [][NextThrowing]_vars

\* -------------------------------------- a handler type added again

\* Routes registered for Site after the class has been defined, by applying
\* the decorators to its prototype: a processor on /a and a filter on /c.
LateRoutes ==
  { [type |-> "Processor", method |-> "late",
     action |-> [path |-> <<"a">>, exact |-> "unset", environment |-> NoVars]],
    [type |-> "Filter", method |-> "audit",
     action |-> [path |-> <<"c">>, exact |-> "unset", environment |-> NoVars]] }

\* Main.addRoute(handler, route), as the decorators Filter and Processor call
\* it: the route joins the list of the handler type.
AddRoute(h, route) ==
  /\ \A i \in 1..Len(routes[h]) : routes[h][i] # route
  /\ routes' = [routes EXCEPT ![h] = Append(@, route)]
  /\ lastCall' = [op |-> "addRoute", result |-> "ok"]
  /\ UNCHANGED <<started, services, loggers, filters, processors, req, log, actionLog, trail>>

\* A stopped application with a service and a logger, and no handler yet.
InitRepeated ==
  /\ routes = Decorated
  /\ started = FALSE
  /\ services = <<NewService>>
  /\ loggers = <<1>>
  /\ filters = <<>>
  /\ processors = <<>>
  /\ req = [r \in Requests |-> IdleRequest]
  /\ log = [r \in Requests |-> <<>>]
  /\ actionLog = <<>>
  /\ lastCall = [op |-> "addLogger", result |-> "ok"]
  /\ trail = Closed

\* Site is added up to MaxRepeats times while routes are still registered for
\* it, the application is started and granted requests are dispatched.
NextRepeated ==
  \/ \E h \in Handlers, route \in LateRoutes : AddRoute(h, route)
  \/ \E h \in Handlers : AddHandlerWithin(h, MaxRepeats)
  \/ Start
  \/ \E r \in Requests, path \in Paths : Receive(r, path, "true", NoVars)
  \/ \E r \in Requests : ProcessorLoop(r)
  \/ \E r \in Requests : FilterLoop(r)
  \/ \E r \in Requests, outcome \in FilterOutcomes, hook \in HookResults :
       FilterReturn(r, outcome, hook)
  \/ \E r \in Requests, outcome \in ProcessorOutcomes : ProcessorReturn(r, outcome)

SpecRepeated == InitRepeated /\ [][NextRepeated]_vars

\* ------------------------------------------------------ reading the record

Range(s) == {s[i] : i \in 1..Len(s)}
Positions(r) == 1..Len(log[r])

IsInvoke(e, type) == e.ev = "invoke" /\ e.kind = type
IsReturn(e, type) == e.ev = "return" /\ e.kind = type
IsNotice(e, type) == e.ev = "notify" /\ e.kind = type
IsHandlerEvent(e) == e.ev \in {"invoke", "return"}

\* The router indexes of the processors invoked for request r, in order.
InvokedProcessors(r) ==
  LET s == SelectSeq(log[r], LAMBDA e : IsInvoke(e, "Processor"))
  IN [i \in 1..Len(s) |-> s[i].idx]

\* The router indexes of the processor candidates request r had at receipt.
CandidateIndexes(r) == [i \in 1..Len(req[r].candidates) |-> req[r].candidates[i].idx]

\* No handler method of request r is invoked after position i of its record.
NoInvokeAfter(r, i) == \A j \in Positions(r) : j > i => log[r][j].ev # "invoke"

\* No filter of request r has denied by its result or by the hook's answer.
NoDenial(r) ==
  \A i \in Positions(r) :
    IsReturn(log[r][i], "Filter") =>
      log[r][i].out \in {"true", "throw"} /\ log[r][i].hook = "true"

Thrown(r, type) == {i \in Positions(r) : IsReturn(log[r][i], type) /\ log[r][i].out = "throw"}

\* Every logger registered at the receipt of r has been told kind exactly once.
ToldOnce(r, type) ==
  \A l \in Range(req[r].observers) :
    Cardinality({i \in Positions(r) : IsNotice(log[r][i], type) /\ log[r][i].logger = l}) = 1

\* The record of r ends with the Process notification: the loggers registered at
\* receipt are told, and nothing but Process notices follows a Process notice.
EndsWithProcess(r) ==
  /\ ToldOnce(r, "Process")
  /\ \A i, j \in Positions(r) :
       IsNotice(log[r][i], "Process") /\ j > i => IsNotice(log[r][j], "Process")

\* ------------------------------------------------------------------ claims

\* C1: short-circuit. Once a filter method has returned false, no handler
\* method of that request is invoked any more: no later filter of the pass,
\* not the processor of the candidate, no further candidate.
C1_ShortCircuit ==
  \A r \in Requests : \A i \in Positions(r) :
    IsReturn(log[r][i], "Filter") /\ log[r][i].out = "false" => NoInvokeAfter(r, i)

\* A dispatch has ended after a filter returned false (the hook not vetoing)
\* with a later filter of the pass, the candidate and a further candidate left.
C1_Witness ==
  \E r \in Requests :
    /\ req[r].pc = "done"
    /\ req[r].fmatch # <<>>
    /\ Len(req[r].pmatch) >= 2
    /\ \E i \in Positions(r) :
         IsReturn(log[r][i], "Filter") /\ log[r][i].out = "false" /\ log[r][i].hook = "true"

\* C2: default-granted. A request received with granted true, with a
\* processor candidate and for which no filter pass found a filter, has had
\* every processor candidate invoked, in order, when its dispatch ends.
C2_DefaultGranted ==
  \A r \in Requests :
    (/\ req[r].pc = "done"
     /\ req[r].seeded = "true"
     /\ req[r].candidates # <<>>
     /\ ~req[r].filtered)
    => InvokedProcessors(r) = CandidateIndexes(r)

\* Such a dispatch has ended with two processor candidates.
C2_Witness ==
  \E r \in Requests :
    /\ req[r].pc = "done"
    /\ req[r].seeded = "true"
    /\ Len(req[r].candidates) >= 2
    /\ ~req[r].filtered
    /\ Len(InvokedProcessors(r)) >= 2

\* C3 as stated: when a handler method (of a filter or of a processor) has
\* thrown and no filter has denied, all remaining matches are still invoked:
\* every processor candidate has been invoked and no filter is left over.
C3_AsStated ==
  \A r \in Requests :
    (/\ req[r].pc = "done"
     /\ req[r].seeded = "true"
     /\ Thrown(r, "Filter") \cup Thrown(r, "Processor") # {}
     /\ NoDenial(r))
    => /\ InvokedProcessors(r) = CandidateIndexes(r)
       /\ req[r].fmatch = <<>>

\* C3, amended: a processor that throws does not abort the loop (absent a
\* denial, every processor candidate is invoked); a filter that throws counts
\* as a denial (no handler method is invoked after it); either way the
\* dispatch ends with the Process notification.
C3_Isolation ==
  \A r \in Requests :
    /\ (/\ req[r].pc = "done"
        /\ req[r].seeded = "true"
        /\ Thrown(r, "Filter") = {}
        /\ NoDenial(r))
       => InvokedProcessors(r) = CandidateIndexes(r)
    /\ \A i \in Thrown(r, "Filter") : NoInvokeAfter(r, i)
    /\ req[r].pc = "done" => EndsWithProcess(r)

\* A dispatch has ended in which a processor threw and, after it, a filter
\* and the next processor candidate were invoked, with a logger registered.
C3_Witness ==
  \E r \in Requests :
    /\ req[r].pc = "done"
    /\ req[r].observers # <<>>
    /\ \E i \in Thrown(r, "Processor") : \E j, k \in Positions(r) :
         /\ i < j /\ j < k
         /\ IsInvoke(log[r][j], "Filter")
         /\ IsInvoke(log[r][k], "Processor")

\* The Error notices of request r that carry error n to logger l.
ErrorNotices(r, n, l) ==
  {j \in Positions(r) :
     IsNotice(log[r][j], "Error") /\ log[r][j].error = n /\ log[r][j].logger = l}

\* C4: every handler invocation that throws is followed at once by exactly
\* one Error notification, which reaches each logger once and whose snapshot
\* carries the error thrown; an Error notice is never fired for an invocation
\* that did not throw.
C4_OneErrorNotice ==
  \A r \in Requests :
    /\ \A i \in Thrown(r, "Filter") \cup Thrown(r, "Processor") :
         \A l \in Range(req[r].observers) :
           \E j \in Positions(r) :
             /\ ErrorNotices(r, log[r][i].n, l) = {j}
             /\ j > i
             /\ \A k \in Positions(r) :
                  i < k /\ k < j =>
                    IsNotice(log[r][k], "Error") /\ log[r][k].error = log[r][i].n
    /\ \A j \in Positions(r) :
         IsNotice(log[r][j], "Error") =>
           /\ \E i \in Thrown(r, "Filter") \cup Thrown(r, "Processor") :
                i < j /\ log[r][i].n = log[r][j].error
           /\ Cardinality(ErrorNotices(r, log[r][j].error, log[r][j].logger)) = 1

\* Two invocations of a request have thrown, one of them after the other was
\* reported, and another has returned, with two loggers registered.
C4_Witness ==
  \E r \in Requests :
    /\ Len(req[r].observers) >= 2
    /\ Cardinality(Thrown(r, "Filter") \cup Thrown(r, "Processor")) >= 2
    /\ \E i \in Positions(r) :
         \/ IsReturn(log[r][i], "Processor") /\ log[r][i].out = "return"
         \/ IsReturn(log[r][i], "Filter") /\ log[r][i].out = "true"

\* C5: a call of addHandler, addService or addLogger fails if and only if
\* the application is started, and a failed call leaves the routers, the
\* services and the loggers (and the rest of the application) as they were.
C5_AddFailsIffStarted ==
  [][((\E h \in Handlers : AddHandler(h)) \/ AddService \/ AddLogger) =>
       /\ (lastCall'.result = "error") <=> started
       /\ lastCall'.result = "error" =>
            UNCHANGED <<started, services, loggers, filters, processors, req, log>>]_vars

\* Each of the three has failed on a started application holding routes, a
\* service and a logger.
C5_Witness ==
  /\ started
  /\ lastCall.result = "error"
  /\ lastCall.op \in {"addHandler", "addService", "addLogger"}
  /\ filters # <<>> /\ services # <<>> /\ loggers # <<>>

\* C6: start() fails if and only if the application is started and stop() if
\* and only if it is not; a start() that succeeds leaves it started, a stop()
\* that succeeds leaves it stopped, and a call that fails leaves it as it was.
C6_StartStop ==
  [][/\ Start =>
          /\ (lastCall'.result = "error") <=> started
          /\ lastCall'.result = "ok" => started'
          /\ lastCall'.result = "error" => started' = started
     /\ Stop =>
          /\ (lastCall'.result = "error") <=> ~started
          /\ lastCall'.result = "ok" => ~started'
          /\ lastCall'.result = "error" => started' = started]_vars

\* stop() has failed on a stopped application that was started and stopped
\* before.
C6_Witness ==
  /\ ~started
  /\ lastCall = [op |-> "stop", result |-> "error"]
  /\ actionLog # <<>>
  /\ actionLog[1].kind = "Stop"

\* The calls recorded in trail are op1, op2, op1, op2, ... up to the i-th.
Alternates(i, op1, op2) ==
  \A j \in 1..i : trail.calls[j].op = (IF j % 2 = 1 THEN op1 ELSE op2)

\* C7 as stated: on a fresh application with no services, stop() then
\* start(), twice in a row, succeed, the state toggling at each call.
C7_AsStated ==
  trail.open =>
    \A i \in 1..Len(trail.calls) :
      Alternates(i, "stop", "start") =>
        /\ trail.calls[i].result = "ok"
        /\ trail.calls[i].started = (i % 2 = 0)

\* C7, amended: on a fresh application with no services, start() then
\* stop(), twice in a row, succeed, the state toggling at each call; stop() as
\* the first call fails and leaves the application stopped.
C7_RoundTrip ==
  trail.open =>
    /\ \A i \in 1..Len(trail.calls) :
         Alternates(i, "start", "stop") =>
           /\ trail.calls[i].result = "ok"
           /\ trail.calls[i].started = (i % 2 = 1)
    /\ Len(trail.calls) >= 1 /\ trail.calls[1].op = "stop" =>
         /\ trail.calls[1].result = "error"
         /\ ~trail.calls[1].started

\* start(), stop(), start(), stop() have been called on a fresh application.
C7_Witness ==
  /\ trail.open
  /\ Len(trail.calls) = 4
  /\ Alternates(4, "start", "stop")
  /\ services = <<>>

\* The variables of the match a handler method was invoked for.
MatchVariables(e) ==
  IF e.kind = "Filter" THEN filters[e.idx].variables ELSE processors[e.idx].variables

\* C8 as stated: the local environment a filter or processor method finds is
\* the request's original one merged with the variables of its own match, and
\* nothing else.
C8_AsStated ==
  \A r \in Requests : \A i \in Positions(r) :
    log[r][i].ev = "invoke" =>
      log[r][i].local.vars = Spread(MatchVariables(log[r][i]), req[r].original.vars)

\* C8, amended: a processor method finds the request's original local
\* environment merged with the variables of its own match; a filter method
\* finds that and, for the keys neither sets, the variables of the processor
\* candidate its filter pass runs for.
C8_Observed ==
  \A r \in Requests : \A i \in Positions(r) :
    LET e == log[r][i] IN
    /\ IsInvoke(e, "Processor") =>
         e.local.vars = Spread(MatchVariables(e), req[r].original.vars)
    /\ IsInvoke(e, "Filter") =>
         e.local.vars =
           Spread(Spread(processors[e.cand].variables, MatchVariables(e)),
                  req[r].original.vars)

\* A filter method has found a variable of the processor candidate, a
\* variable of its own match that the candidate sets too, and a variable of
\* the request that both set too.
C8_Witness ==
  \E r \in Requests : \E i \in Positions(r) :
    /\ IsInvoke(log[r][i], "Filter")
    /\ log[r][i].local.vars = [x |-> "rq", y |-> "fc", z |-> "pl"]

\* C9: after every filter match and every processor match, and when the
\* dispatch ends, request.environment.local is the object the request carried
\* at receipt, with its content.
C9_Restored ==
  \A r \in Requests :
    req[r].pc \in {"ploop", "floop", "done"} => req[r].envLocal = req[r].original

\* A dispatch has ended after two processor candidates, each with two filters
\* before it, for a request that carried a variable.
C9_Witness ==
  \E r \in Requests :
    /\ req[r].pc = "done"
    /\ req[r].calls >= 6
    /\ Len(InvokedProcessors(r)) >= 2
    /\ req[r].original.vars # NoVars

\* C10: each logger registered when a request is received is told Receive
\* exactly once, before any handler method of the request is invoked, and,
\* when the dispatch has ended, Process exactly once, after the last handler
\* invocation and its completion; before the end no Process notice is fired.
C10_ReceiveThenProcess ==
  \A r \in Requests :
    /\ req[r].pc # "idle" =>
         /\ ToldOnce(r, "Receive")
         /\ \A i, j \in Positions(r) :
              IsNotice(log[r][i], "Receive") /\ IsHandlerEvent(log[r][j]) => i < j
    /\ req[r].pc = "done" =>
         /\ ToldOnce(r, "Process")
         /\ \A i, j \in Positions(r) :
              IsNotice(log[r][i], "Process") /\ ~IsNotice(log[r][j], "Process") => j < i
    /\ req[r].pc # "done" =>
         \A i \in Positions(r) : ~IsNotice(log[r][i], "Process")

\* A dispatch has ended with two loggers told after a filter denied the
\* request, so that no processor ran.
C10_Witness ==
  \E r \in Requests :
    /\ req[r].pc = "done"
    /\ Len(req[r].observers) = 2
    /\ InvokedProcessors(r) = <<>>
    /\ \E i \in Positions(r) : IsReturn(log[r][i], "Filter") /\ log[r][i].out = "false"

\* The handler events (invocations and completions) of request r, in order.
HandlerEvents(r) == SelectSeq(log[r], IsHandlerEvent)

\* s is an initial part of t.
IsInitialPart(s, t) == Len(s) <= Len(t) /\ \A i \in 1..Len(s) : s[i] = t[i]

\* The router indexes of the filters invoked in the filter pass of request r
\* for processor candidate c, in order.
InvokedFilters(r, c) ==
  LET s == SelectSeq(log[r], LAMBDA e : IsInvoke(e, "Filter") /\ e.cand = c)
  IN [i \in 1..Len(s) |-> s[i].idx]

\* The router indexes of the filters that match the path of request r.
FilterIndexes(r) ==
  LET m == RouterMatch(filters, req[r].path) IN [i \in 1..Len(m) |-> m[i].idx]

\* C11: within a request the handler methods run one at a time (each
\* invocation is followed by its completion before the next invocation), the
\* processors invoked are the first of the processor match, in its order, and
\* the filters invoked in a filter pass are the first of the filter match, in
\* its order.
C11_InOrderOneAtATime ==
  \A r \in Requests :
    /\ \A m \in 1..Len(HandlerEvents(r)) :
         /\ HandlerEvents(r)[m].ev = (IF m % 2 = 1 THEN "invoke" ELSE "return")
         /\ HandlerEvents(r)[m].n = (m + 1) \div 2
    /\ IsInitialPart(InvokedProcessors(r), CandidateIndexes(r))
    /\ \A c \in Range(CandidateIndexes(r)) :
         IsInitialPart(InvokedFilters(r, c), FilterIndexes(r))

\* A dispatch has ended in which two filters ran, in order, before each of
\* two processors.
C11_Witness ==
  \E r \in Requests :
    /\ req[r].pc = "done"
    /\ Len(InvokedProcessors(r)) = 2
    /\ \A c \in Range(CandidateIndexes(r)) : Len(InvokedFilters(r, c)) = 2

\* Service s has none of the three listeners subscribed and is not running.
Detached(s) == s.receive = 0 /\ s.send = 0 /\ s.error = 0 /\ ~s.running

\* C12: every logger is told of a start() that succeeds while the
\* application is still stopped and the services are as they were before the
\* call (none subscribed or started by it), and of a stop() that succeeds when
\* the application is already stopped and every registered service has been
\* stopped and has the three listeners unsubscribed.
C12_Bracketed ==
  [][/\ (Start /\ ~started) =>
          /\ Len(actionLog') = Len(loggers)
          /\ \A i \in 1..Len(actionLog') :
               /\ actionLog'[i].kind = "Start" /\ actionLog'[i].logger = loggers[i]
               /\ ~actionLog'[i].started
               /\ actionLog'[i].services = services
     /\ (Stop /\ started) =>
          /\ Len(actionLog') = Len(loggers)
          /\ \A i \in 1..Len(actionLog') :
               /\ actionLog'[i].kind = "Stop" /\ actionLog'[i].logger = loggers[i]
               /\ ~actionLog'[i].started
               /\ actionLog'[i].services = services'
               /\ \A k \in 1..Len(services') : Detached(services'[k])]_vars

\* Two loggers have been told of a stop() of an application with a service,
\* which start() had subscribed to and started before.
C12_Witness ==
  /\ lastCall = [op |-> "stop", result |-> "ok"]
  /\ Len(actionLog) = 2
  /\ actionLog[2].kind = "Stop"
  /\ actionLog[2].services # <<>>

\* What a handler method of request r was invoked for and what it found, for
\* each invocation in order, and what each completed invocation did.
Invocations(r) ==
  LET s == SelectSeq(log[r], LAMBDA e : e.ev = "invoke")
  IN [i \in 1..Len(s) |-> [kind |-> s[i].kind, idx |-> s[i].idx, local |-> s[i].local.vars]]

Outcomes(r) ==
  LET s == SelectSeq(log[r], LAMBDA e : e.ev = "return")
  IN [i \in 1..Len(s) |-> [out |-> s[i].out, hook |-> s[i].hook]]

\* The dispatch of a request with this path, granted and local environment
\* when it is the only one (receiveHandler and performFilters read as one
\* sequential program), its handler methods completing as outs says, as far
\* as outs reaches: the invocations made, whether the dispatch has ended, and
\* the request's granted and local environment then. pm and fm are what is
\* left of the processor match and of the filter match of the current pass.
RECURSIVE AloneFilters(_, _, _, _, _, _, _)
AloneFilters(path, local, granted, pm, fm, outs, invs) ==
  IF Truthy(granted) /\ fm # <<>>
  THEN LET inv == [kind |-> "Filter", idx |-> Head(fm).idx,
                   local |-> Spread(Spread(Head(pm).variables, Head(fm).variables), local)]
       IN IF outs = <<>>
          THEN [invs |-> Append(invs, inv), ended |-> FALSE, granted |-> granted, local |-> local]
          ELSE AloneFilters(path, local,
                            GrantedBy(Head(outs).hook, Allows(HandlerResult(Head(outs).out))),
                            pm, Tail(fm), Tail(outs), Append(invs, inv))
  ELSE IF ~Truthy(granted)
  THEN [invs |-> invs, ended |-> TRUE, granted |-> granted, local |-> local]
  ELSE LET inv == [kind |-> "Processor", idx |-> Head(pm).idx,
                   local |-> Spread(Head(pm).variables, local)]
       IN IF outs = <<>>
          THEN [invs |-> Append(invs, inv), ended |-> FALSE, granted |-> granted, local |-> local]
          ELSE IF Tail(pm) = <<>>
          THEN [invs |-> Append(invs, inv), ended |-> TRUE, granted |-> granted, local |-> local]
          ELSE AloneFilters(path, local, granted, Tail(pm), RouterMatch(filters, path),
                            Tail(outs), Append(invs, inv))

Alone(path, local, granted, outs) ==
  IF RouterMatch(processors, path) = <<>>
  THEN [invs |-> <<>>, ended |-> TRUE, granted |-> granted, local |-> local]
  ELSE AloneFilters(path, local, granted, RouterMatch(processors, path),
                    RouterMatch(filters, path), outs, <<>>)

AloneAs(r) == Alone(req[r].path, req[r].original.vars, req[r].seeded, Outcomes(r))

\* C13: whatever the dispatch of the other request does in between, the
\* handler invocations of a request and the local environment each finds are
\* those of the request dispatched alone with the same handler outcomes, and
\* so are its granted and its local environment when its dispatch ends.
C13_NonInterference ==
  \A r \in DOMAIN req :
    req[r].pc # "idle" =>
      /\ IsInitialPart(Invocations(r), AloneAs(r).invs)
      /\ req[r].pc \in {"fwait", "pwait"} =>
           Invocations(r) = AloneAs(r).invs /\ ~AloneAs(r).ended
      /\ req[r].pc = "done" =>
           /\ Invocations(r) = AloneAs(r).invs
           /\ AloneAs(r).ended
           /\ req[r].granted = AloneAs(r).granted
           /\ req[r].envLocal.vars = AloneAs(r).local

\* Two requests with different local environments are in flight together,
\* each with a handler method running, after earlier handler methods of both
\* have completed.
C13_Witness ==
  /\ DOMAIN req = Pair
  /\ req[1].pc = "fwait" /\ req[2].pc = "pwait"
  /\ req[1].original.vars # req[2].original.vars
  /\ req[1].calls >= 4 /\ req[2].calls >= 3

\* The dispatch of request r is under way and no handler method of it is stalled.
Running(r) == req[r].pc \in {"ploop", "floop", "fwait", "pwait"}

\* C14: a request with a handler method that never returns gets no further
\* handler invocation and no Process notification; the dispatch of the other
\* request still runs to its end (unless a handler method of its own never
\* returns); and start(), stop() and the add* operations can still be called
\* and complete.
C14_StallsOnlyItsOwn ==
  /\ [][\A r \in Pair :
          req[r].pc = "hung" => req'[r] = req[r] /\ log'[r] = log[r]]_vars
  /\ [](\A r \in Pair :
          req[r].pc = "hung" =>
            /\ \A i \in Positions(r) : ~IsNotice(log[r][i], "Process")
            /\ ENABLED Start /\ ENABLED Stop
            /\ started => ENABLED AddLogger /\ ENABLED AddService
                          /\ ENABLED (\E h \in Handlers : AddHandler(h)))
  /\ \A r \in Pair : \A o \in Pair \ {r} :
       (req[o].pc = "hung" /\ Running(r)) ~> (req[r].pc \in {"done", "hung"})

\* A handler method of one request never returns, and the dispatch of the
\* other request, received after that, has ended after all its handler methods
\* ran, on an application that has been stopped since.
C14_Witness ==
  /\ req[1].pc = "hung"
  /\ req[2].pc = "done"
  /\ Len(InvokedProcessors(2)) = 2
  /\ lastCall = [op |-> "stop", result |-> "ok"]

\* Every filter method of request r that has completed returned true, and
\* the hook agreed.
AllGranted(r) ==
  \A i \in Positions(r) :
    IsReturn(log[r][i], "Filter") => log[r][i].out = "true" /\ log[r][i].hook = "true"

\* No handler class has been added since request r was received.
RoutesAsAtReceipt(r) == req[r].candidates = RouterMatch(processors, req[r].path)

\* What is invoked k-th when every one of the filters fs grants for each of
\* the candidates cs: a full filter pass before each candidate.
PassByPass(cs, fs, k) ==
  LET p == ((k - 1) \div (Len(fs) + 1)) + 1
      j == ((k - 1) % (Len(fs) + 1)) + 1
  IN IF j <= Len(fs) THEN [kind |-> "Filter", idx |-> fs[j], cand |-> cs[p]]
                     ELSE [kind |-> "Processor", idx |-> cs[p], cand |-> cs[p]]

\* The handler invocations of request r with the candidate each was made for.
InvokedFor(r) ==
  LET s == SelectSeq(log[r], LAMBDA e : e.ev = "invoke")
  IN [i \in 1..Len(s) |-> [kind |-> s[i].kind, idx |-> s[i].idx, cand |-> s[i].cand]]

\* C15: when a request received granted has n processor candidates and m
\* matching filters that all grant, its dispatch invokes, for each candidate
\* in turn, the m filters and then the candidate, and nothing after the last
\* candidate. In every dispatch a processor is invoked only with the request
\* granted and after the filters invoked for it, all of which granted, and no
\* filter is invoked after the last candidate.
C15_PassPerCandidate ==
  \A r \in Requests :
    /\ (/\ req[r].pc = "done"
        /\ req[r].seeded = "true"
        /\ AllGranted(r)
        /\ RoutesAsAtReceipt(r))
       => /\ Len(InvokedFor(r)) = Len(CandidateIndexes(r)) * (Len(FilterIndexes(r)) + 1)
          /\ \A k \in 1..Len(InvokedFor(r)) :
               InvokedFor(r)[k] = PassByPass(CandidateIndexes(r), FilterIndexes(r), k)
    /\ \A i \in Positions(r) :
         IsInvoke(log[r][i], "Processor") =>
           /\ log[r][i].granted = "true"
           /\ \A j \in Positions(r) :
                log[r][j].kind = "Filter" /\ log[r][j].cand = log[r][i].cand =>
                  /\ j < i
                  /\ IsReturn(log[r][j], "Filter") =>
                       log[r][j].out = "true" /\ log[r][j].hook = "true"
           /\ RoutesAsAtReceipt(r) => InvokedFilters(r, log[r][i].cand) = FilterIndexes(r)
    /\ \A i, j \in Positions(r) :
         (/\ IsInvoke(log[r][i], "Processor")
          /\ req[r].candidates # <<>>
          /\ log[r][i].idx = req[r].candidates[Len(req[r].candidates)].idx
          /\ j > i)
         => log[r][j].ev # "invoke"

\* A dispatch with two candidates and two filters, all granting, has ended.
C15_Witness ==
  \E r \in Requests :
    /\ req[r].pc = "done"
    /\ req[r].seeded = "true"
    /\ AllGranted(r)
    /\ RoutesAsAtReceipt(r)
    /\ Len(CandidateIndexes(r)) = 2 /\ Len(FilterIndexes(r)) = 2
    /\ Len(InvokedFor(r)) = 6

\* The first of the values that is set, Absent when none is.
FirstSet(values) ==
  LET set == SelectSeq(values, LAMBDA v : v # Absent)
  IN IF set = <<>> THEN Absent ELSE Head(set)

\* C16: key by key, the local environment a filter method finds holds the
\* value of the request's original local environment where the key is set
\* there, otherwise that of the filter match's variables, otherwise that of
\* the variables of the processor candidate; the one a processor method finds
\* holds the original's value, otherwise that of the processor match's
\* variables.
C16_Precedence ==
  \A r \in Requests : \A i \in Positions(r) : \A k \in Keys :
    LET e == log[r][i] IN
    /\ IsInvoke(e, "Filter") =>
         e.local.vars[k] = FirstSet(<<req[r].original.vars[k], filters[e.idx].variables[k],
                                      processors[e.cand].variables[k]>>)
    /\ IsInvoke(e, "Processor") =>
         e.local.vars[k] = FirstSet(<<req[r].original.vars[k], processors[e.idx].variables[k]>>)

\* A processor method has found a key of the request that its match sets too
\* and a key only its match sets, after a filter method found a key only the
\* candidate sets and a key of its own match that the candidate sets too.
C16_Witness ==
  \E r \in Requests : \E i, j \in Positions(r) :
    /\ i < j
    /\ IsInvoke(log[r][i], "Filter")
    /\ filters[log[r][i].idx].method = "deep"
    /\ log[r][i].local.vars = [x |-> "rq", y |-> "fd", z |-> "pl"]
    /\ IsInvoke(log[r][j], "Processor")
    /\ log[r][j].local.vars = [x |-> "rq", y |-> "pl", z |-> "pl"]

\* C17: when the match callback of a filter completes, granted is true if
\* the filter method returned exactly true and the filterHandler hook answered
\* true, and false otherwise: the hook can veto a grant, and whatever it
\* answers a method that returned false or another value than true, or that
\* threw, leaves the request denied.
C17_HookAndResult ==
  [][\A r \in Requests : \A outcome \in FilterOutcomes : \A hook \in HookResults :
       FilterReturn(r, outcome, hook) =>
         req'[r].granted = (IF outcome = "true" /\ hook = "true" THEN "true" ELSE "false")]_vars

\* A filter method returned a value other than true, the hook answered true,
\* and the request is denied.
C17_Witness ==
  \E r \in Requests :
    /\ req[r].pc = "floop"
    /\ req[r].granted = "false"
    /\ log[r] # <<>>
    /\ IsReturn(log[r][Len(log[r])], "Filter")
    /\ log[r][Len(log[r])].out = "other"
    /\ log[r][Len(log[r])].hook = "true"

\* The filter completions recorded for request r.
FilterReturns(r) == {i \in Positions(r) : IsReturn(log[r][i], "Filter")}

\* The conjunction of granted at the receipt of r and of what each filter
\* invoked for r made of it; with no filter invoked, the value at receipt.
GrantedConjunction(r) ==
  IF FilterReturns(r) = {} THEN req[r].seeded
  ELSE IF Truthy(req[r].seeded) /\ AllGranted(r) THEN "true" ELSE "false"

\* C18: during a dispatch a granted that is not true is left as it is; a
\* handler method is invoked only while granted is true; and the Process
\* notification carries the conjunction of granted at receipt and of the
\* outcomes of the filters invoked.
C18_Monotonic ==
  /\ [][\A r \in Requests :
          req[r].pc \notin {"idle", "done"} /\ ~Truthy(req[r].granted) =>
            req'[r].granted = req[r].granted]_vars
  /\ [](\A r \in Requests : \A i \in Positions(r) :
          /\ log[r][i].ev = "invoke" => log[r][i].granted = "true"
          /\ IsNotice(log[r][i], "Process") => log[r][i].granted = GrantedConjunction(r))

\* The loggers have been told Process with granted false for a request that
\* was received granted, after two filters granted, a processor ran and a
\* later filter denied.
C18_Witness ==
  \E r \in Requests :
    /\ req[r].pc = "done"
    /\ req[r].seeded = "true"
    /\ Cardinality(FilterReturns(r)) >= 3
    /\ Len(InvokedProcessors(r)) = 1
    /\ \E i \in Positions(r) : IsNotice(log[r][i], "Process") /\ log[r][i].granted = "false"

\* Service s has the three listeners of the pipeline subscribed.
Listened(s) == s.receive > 0 /\ s.send > 0 /\ s.error > 0

\* The positions of the registered services.
ServiceIndexes == 1..Len(services)

\* C19: however start() and stop() end, a service that runs has the three
\* listeners subscribed; a start() that is left at the k-th service has
\* subscribed to and started the services before it, has subscribed to the
\* k-th and has not touched those after it; a stop() that is left at the k-th
\* service has stopped and unsubscribed from the services before it and has
\* unsubscribed from no other; one that is not left visits every service.
C19_ListeningWhileRunning ==
  /\ [](\A i \in ServiceIndexes : services[i].running => Listened(services[i]))
  /\ [][/\ \A k \in ServiceIndexes : \A runs \in BOOLEAN :
             StartServiceThrows(k, runs) =>
               \A i \in ServiceIndexes :
                 /\ i < k => services'[i].running
                 /\ i <= k => services'[i].receive = services[i].receive + 1
                 /\ i > k => services'[i] = services[i]
        /\ \A k \in ServiceIndexes : \A runs \in BOOLEAN :
             StopServiceThrows(k, runs) =>
               \A i \in ServiceIndexes :
                 /\ i < k => /\ ~services'[i].running
                             /\ services[i].receive > 0 =>
                                  services'[i].receive = services[i].receive - 1
                 /\ i = k => services'[i].receive = services[i].receive
                 /\ i > k => services'[i] = services[i]
        /\ (Start /\ ~started) =>
             \A i \in ServiceIndexes : services'[i].running /\ Listened(services'[i])
        /\ (Stop /\ started) =>
             \A i \in ServiceIndexes : ~services'[i].running]_vars

\* stop() has been left at the second service, whose stop operation threw
\* and left it running: the first is stopped and unsubscribed from, the second
\* still has the listeners.
C19_Witness ==
  /\ lastCall = [op |-> "stop", result |-> "thrown"]
  /\ Len(services) = 2
  /\ Detached(services[1])
  /\ services[2].running /\ Listened(services[2])

\* C20 as stated: whatever calls have been made and however they ended, each
\* registered service has the three listeners subscribed, and has been
\* started, if and only if the application is started.
C20_AsStated ==
  \A i \in ServiceIndexes :
    /\ Listened(services[i]) <=> started
    /\ services[i].running <=> started

\* C21 as stated: notifyRequest called with a kind that is none of Receive,
\* Process, Send and Error, and notifyAction called with a kind that is
\* neither Start nor Stop, fail with the invalid-kind error, whatever loggers
\* are registered, none included.
C21_AsStated ==
  /\ (lastCall.op = "notifyRequest" /\ lastCall.type \notin RequestKinds)
       => lastCall.result = "error"
  /\ (lastCall.op = "notifyAction" /\ lastCall.type \notin ActionKinds)
       => lastCall.result = "error"

\* The last handler invocation in the record of r.
LastInvoke(r) ==
  LET s == SelectSeq(log[r], LAMBDA e : e.ev = "invoke") IN s[Len(s)]

\* What is read through the copies handed to the loggers of r, now: a Receive
\* copy shows granted and error as at receipt and an Error copy the error it
\* reported and the grant the method ran under; environment.local shows what
\* the request holds now: the merged record of the handler method that runs,
\* the request's own record otherwise.
SnapshotsOf(r) ==
  \A i \in Positions(r) :
    LET e == log[r][i]
        view == SnapshotView(e, req[r])
    IN e.ev = "notify" =>
         /\ e.kind = "Receive" => view.granted = req[r].seeded /\ view.error = 0
         /\ e.kind = "Error" =>
              /\ view.granted = "true"
              /\ view.error > 0
              /\ IsHandlerEvent(log[r][i - 1]) =>
                   log[r][i - 1].out = "throw" /\ log[r][i - 1].n = view.error
         /\ view.local = IF req[r].pc \in {"fwait", "pwait"}
                         THEN LastInvoke(r).local
                         ELSE req[r].original

\* C22: the object handed to loggers is a shallow copy fixed at notification
\* time: read later, its top-level fields show the values the request had when
\* the notification fired, whatever the pipeline has done to the request
\* since; its environment.local shows the swaps the pipeline has made since;
\* and an assignment to a top-level field of the copy changes neither the
\* copy nor the request.
C22_ShallowSnapshot ==
  [][/\ \A r \in Requests : SnapshotsOf(r)'
     /\ \A r \in Requests : \A i \in 1..Len(log[r]), value \in Granteds,
                                result \in {"ok", "thrown"} :
          LoggerWrites(r, i, value, result) => UNCHANGED <<req, log>>]_vars

\* A logger has tried to write to a copy it holds of a request that was
\* received with granted true and no error, whose handler methods have run
\* under merged local environments, and which now carries an error and
\* granted false.
C22_Witness ==
  \E r \in Requests :
    /\ lastCall.op = "write"
    /\ req[r].pc = "done"
    /\ req[r].seeded = "true" /\ req[r].granted = "false"
    /\ req[r].error > 0
    /\ \E i \in Positions(r) : log[r][i].ev = "invoke" /\ log[r][i].local # req[r].original
    /\ \E i \in Positions(r) : IsNotice(log[r][i], "Receive")
    /\ \E i \in Positions(r) : IsNotice(log[r][i], "Error")

\* The loggers told type in record rec, in the order they were told.
Told(rec, type) ==
  LET t == SelectSeq(rec, LAMBDA e : IsNotice(e, type)) IN [i \in 1..Len(t) |-> t[i].logger]

\* The loggers told of error n in record rec, in the order they were told.
ToldError(rec, n) ==
  LET t == SelectSeq(rec, LAMBDA e : IsNotice(e, "Error") /\ e.error = n)
  IN [i \in 1..Len(t) |-> t[i].logger]

\* The dispatch of r was left at its first line: it failed with no Process
\* notice fired.
FailedAtReceipt(r) == req[r].pc = "failed" /\ Told(log[r], "Process") = <<>>

\* C23: the hub does not catch what a logger callback throws. The loggers up
\* to the one that throws are notified, in order, and none after it; a
\* throwing onStart makes start() fail with the application still stopped and
\* the services as they were (none subscribed to, none started); a throwing
\* onReceive or onProcess makes the dispatch fail, and after a throwing
\* onReceive no filter and no processor method of that request is ever
\* invoked; a throwing onStop makes stop() fail.
C23_ObserverErrors ==
  [][/\ \A j \in 1..MaxLoggers :
          /\ StartLoggerThrows(j) =>
               /\ lastCall' = [op |-> "start", result |-> "thrown"]
               /\ ~started'
               /\ services' = services
               /\ [i \in 1..Len(actionLog') |-> actionLog'[i].logger] = SubSeq(loggers, 1, j)
          /\ StopLoggerThrows(j) =>
               /\ lastCall' = [op |-> "stop", result |-> "thrown"]
               /\ [i \in 1..Len(actionLog') |-> actionLog'[i].logger] = SubSeq(loggers, 1, j)
          /\ \A r \in Requests :
               /\ (\E path \in Paths, granted \in Granteds :
                     ReceiveLoggerThrows(r, path, granted, j)) =>
                    /\ req'[r].pc = "failed"
                    /\ Told(log'[r], "Receive") = SubSeq(loggers, 1, j)
               /\ ProcessLoggerThrows(r, j) =>
                    /\ req'[r].pc = "failed"
                    /\ Told(log'[r], "Process") = SubSeq(loggers, 1, j)
               /\ ((\E hook \in HookResults : FilterErrorLoggerThrows(r, hook, j))
                     \/ ProcessorErrorLoggerThrows(r, j)) =>
                    ToldError(log'[r], req[r].calls) = SubSeq(loggers, 1, j)
     /\ \A r \in Requests :
          FailedAtReceipt(r)' => \A i \in 1..Len(log'[r]) : IsNotice(log'[r][i], "Receive")]_vars

\* With two loggers registered, onReceive of the first threw for a granted
\* request with processor candidates, and later onStart of the first threw in
\* start() on the stopped application.
C23_Witness ==
  /\ Len(loggers) = 2
  /\ lastCall = [op |-> "start", result |-> "thrown"]
  /\ ~started
  /\ Len(actionLog) = 1
  /\ \E r \in Requests :
       /\ FailedAtReceipt(r)
       /\ req[r].seeded = "true"
       /\ req[r].candidates # <<>>
       /\ Len(req[r].observers) = 2
       /\ Len(log[r]) = 1

\* C24: stop() neither waits for nor cancels the dispatches in flight. It
\* leaves every request and its record as they are; a dispatch in flight on a
\* stopped application can take its next step, and does run to its end (unless
\* a handler method of its own never returns), where the Process notification
\* is delivered; and while the application is stopped no service delivers a
\* request.
C24_StopDoesNotCancel ==
  /\ [][Stop => UNCHANGED <<req, log>>]_vars
  /\ [](\A r \in Pair :
          /\ (~started /\ Running(r)) => ENABLED Continue(r)
          /\ req[r].pc = "done" => EndsWithProcess(r)
          /\ ~started => ~ENABLED Receive(r, <<"a", "b">>, "true", NoVars))
  /\ \A r \in Pair : (~started /\ Running(r)) ~> (req[r].pc \in {"done", "hung"})

\* A request received while one logger was registered has had both its
\* processors invoked and its Process notification delivered to a second
\* logger too, which was added after the application was stopped; the
\* application is stopped.
C24_Witness ==
  \E r \in Pair :
    /\ ~started
    /\ req[r].pc = "done"
    /\ req[r].observers = <<1>>
    /\ Len(InvokedProcessors(r)) = 2
    /\ \E i \in Positions(r) : IsNotice(log[r][i], "Process") /\ log[r][i].logger = 2

\* C25: filters fail closed. The completion of a filter method that throws
\* (the construction of the handler included) leaves the request as the
\* completion of one that returned false does, but for the error it attaches:
\* granted is false, whatever the hook answers; each logger is told of the
\* error once; no handler method of that request is invoked after it; and the
\* request is denied when its dispatch ends.
C25_FailClosed ==
  [][\A r \in Requests :
       /\ \A hook \in HookResults :
            FilterReturn(r, "throw", hook) =>
              /\ req'[r] = [req[r] EXCEPT !.granted = "false", !.error = req[r].calls,
                                          !.envLocal = req[r].flocal, !.pc = "floop"]
              /\ \A j \in 1..Len(loggers) :
                   Cardinality(ErrorNotices(r, req[r].calls, loggers[j])') = 1
       /\ (\A i \in Thrown(r, "Filter") : NoInvokeAfter(r, i))'
       /\ (req[r].pc = "done" /\ Thrown(r, "Filter") # {} => req[r].granted = "false")']_vars

\* A dispatch has ended after a filter method threw, the hook not vetoing,
\* with a later filter of the pass, the candidate and a further candidate
\* left, and two loggers told of the error.
C25_Witness ==
  \E r \in Requests :
    /\ req[r].pc = "done"
    /\ req[r].fmatch # <<>>
    /\ Len(req[r].pmatch) >= 2
    /\ Len(req[r].observers) = 2
    /\ \E i \in Thrown(r, "Filter") : log[r][i].hook = "true"

\* C26: the pipeline never sets granted for a request on its own. A request
\* received with granted false or unset has no filter method and no processor
\* method invoked, whether filters match its path or not, and keeps the
\* granted it came with; each logger registered at receipt is still told
\* Receive once and, when the dispatch has ended, Process once.
C26_NeverSeeded ==
  \A r \in Requests :
    (req[r].pc # "idle" /\ req[r].seeded # "true") =>
      /\ \A i \in Positions(r) : ~IsHandlerEvent(log[r][i])
      /\ req[r].granted = req[r].seeded
      /\ ToldOnce(r, "Receive")
      /\ req[r].pc = "done" => EndsWithProcess(r)

\* The dispatch of a request received with granted unset has ended; two
\* processors match its path and no filter does, and two loggers were told.
C26_Witness ==
  \E r \in Requests :
    /\ req[r].pc = "done"
    /\ req[r].seeded = "undefined"
    /\ Len(req[r].candidates) = 2
    /\ filters # <<>>
    /\ RouterMatch(filters, req[r].path) = <<>>
    /\ Len(req[r].observers) = 2
    /\ Len(log[r]) = 4

\* C27: filters run only on behalf of a processor candidate. A request whose
\* path no processor route matches has no handler method invoked, filters
\* matching its path or not, and keeps the granted it came with; each logger
\* registered at receipt is still told Receive once and, when the dispatch has
\* ended, Process once.
C27_FiltersNeedCandidate ==
  \A r \in Requests :
    (req[r].pc # "idle" /\ req[r].candidates = <<>>) =>
      /\ \A i \in Positions(r) : ~IsHandlerEvent(log[r][i])
      /\ req[r].granted = req[r].seeded
      /\ ToldOnce(r, "Receive")
      /\ req[r].pc = "done" => EndsWithProcess(r)

\* The dispatch of a granted request for /a has ended: a filter route matches
\* the path, processor routes are installed and none matches it, and two
\* loggers were told.
C27_Witness ==
  \E r \in Requests :
    /\ req[r].pc = "done"
    /\ req[r].seeded = "true"
    /\ req[r].candidates = <<>>
    /\ processors # <<>>
    /\ RouterMatch(filters, req[r].path) # <<>>
    /\ Len(req[r].observers) = 2
    /\ Len(log[r]) = 4

\* C28: what onError of a logger throws while a handler error is reported
\* never leaves the handler invocation. The invocation resolves with no
\* result and the request is left as after any handler method that throws (a
\* filter has denied it, a processor has not; the error is attached and the
\* local environment restored); the dispatch is at the condition of its loop
\* and can go on; it never fails but at its Receive or Process notification;
\* and when it has ended, the loggers registered at receipt have been told
\* Process.
C28_ErrorReportSwallowed ==
  /\ [][\A r \in Requests, j \in 1..MaxLoggers :
          /\ \A hook \in HookResults :
               FilterErrorLoggerThrows(r, hook, j) =>
                 req'[r] = [req[r] EXCEPT !.granted = "false", !.error = req[r].calls,
                                          !.envLocal = req[r].flocal, !.pc = "floop"]
          /\ ProcessorErrorLoggerThrows(r, j) =>
               req'[r] = [req[r] EXCEPT !.error = req[r].calls,
                                        !.envLocal = req[r].local, !.pc = "ploop"]]_vars
  /\ [](\A r \in Requests :
          /\ req[r].pc = "failed" =>
               \/ IsNotice(log[r][Len(log[r])], "Receive")
               \/ IsNotice(log[r][Len(log[r])], "Process")
          /\ req[r].pc = "done" => EndsWithProcess(r)
          /\ Running(r) => ENABLED Continue(r))

\* A dispatch has ended with its Process notification told to both loggers
\* after two processors were invoked: the first threw, and onError of the
\* first logger threw while that was reported, so that the second logger was
\* not told of the error.
C28_Witness ==
  \E r \in Requests :
    /\ req[r].pc = "done"
    /\ Len(req[r].observers) = 2
    /\ Len(InvokedProcessors(r)) = 2
    /\ Told(log[r], "Process") = <<1, 2>>
    /\ \E i \in Thrown(r, "Processor") :
         /\ ToldError(log[r], log[r][i].n) = <<1>>
         /\ \E k \in Positions(r) : k > i /\ IsInvoke(log[r][k], "Processor")

\* The entries of router that hold method m, and those of them that match path.
EntriesOf(router, m) == {i \in 1..Len(router) : router[i].method = m}
Installed(router, m, path) ==
  Cardinality({i \in EntriesOf(router, m) : RouteMatches(router[i], path)})

\* The invocations of processor method m for request r, and those of filter
\* method m in the filter pass for processor candidate c.
Invoked(r, m) ==
  Cardinality({i \in Positions(r) : IsInvoke(log[r][i], "Processor") /\ log[r][i].method = m})
InvokedInPass(r, c, m) ==
  Cardinality({i \in Positions(r) :
                 IsInvoke(log[r][i], "Filter") /\ log[r][i].cand = c /\ log[r][i].method = m})

\* C29: addHandler is not idempotent. Each successful call appends to the
\* routers one entry per route registered for the handler type at that moment,
\* in registration order, and registering a route changes no router; so a
\* route registered before the first of k calls has k entries, and when every
\* filter grants, each processor method is invoked, and each filter method is
\* invoked in each filter pass, once per entry of its that matches the path: k
\* times for those routes, and never for a route registered after the last
\* call.
C29_NotIdempotent ==
  /\ [][/\ \A h \in Handlers :
             (AddHandlerWithin(h, MaxRepeats) /\ ~started) =>
               LET fs == OfType(routes[h], "Filter")
                   ps == OfType(routes[h], "Processor")
               IN /\ Len(filters') = Len(filters) + Len(fs)
                  /\ Len(processors') = Len(processors) + Len(ps)
                  /\ \A i \in 1..Len(filters) : filters'[i] = filters[i]
                  /\ \A i \in 1..Len(processors) : processors'[i] = processors[i]
                  /\ \A i \in 1..Len(fs) :
                       /\ filters'[Len(filters) + i].method = fs[i].method
                       /\ filters'[Len(filters) + i].path = fs[i].action.path
                  /\ \A i \in 1..Len(ps) :
                       /\ processors'[Len(processors) + i].method = ps[i].method
                       /\ processors'[Len(processors) + i].path = ps[i].action.path
        /\ \A h \in Handlers, route \in LateRoutes :
             AddRoute(h, route) => UNCHANGED <<filters, processors>>]_vars
  /\ [](\A i \in 1..Len(SiteRoutes) :
          Cardinality(EntriesOf(filters \o processors, SiteRoutes[i].method)) = HandlerCalls)
  /\ [](\A r \in Requests :
          (req[r].pc = "done" /\ AllGranted(r)) =>
            \A h \in Handlers : \A i \in 1..Len(routes[h]) :
              LET route == routes[h][i] IN
              IF route.type = "Processor"
              THEN Invoked(r, route.method) = Installed(processors, route.method, req[r].path)
              ELSE \A c \in Range(CandidateIndexes(r)) :
                     InvokedInPass(r, c, route.method)
                       = Installed(filters, route.method, req[r].path))

\* Site was added, the processor on /a registered, Site added again and the
\* filter on /c registered; the dispatch of a request for /a has ended: the
\* filter on /a ran twice before the processor on /a, which ran once, and the
\* filter on /c is in no router.
C29_Witness ==
  \E r \in Requests :
    /\ req[r].pc = "done"
    /\ AllGranted(r)
    /\ HandlerCalls = 2
    /\ req[r].path = <<"a">>
    /\ Invoked(r, "late") = 1
    /\ \A c \in Range(CandidateIndexes(r)) : InvokedInPass(r, c, "check") = 2
    /\ \E i \in 1..Len(routes["Site"]) : routes["Site"][i].method = "audit"
    /\ EntriesOf(filters, "audit") = {}
====
